---- MODULE Spec2Model ----
(***************************************************************************)
(* Model of the Mergington High School activities API (src/src/app.py):    *)
(* the in-memory activity registry and its request handlers.               *)
(*                                                                         *)
(*   Spec      one request at a time, every handler call atomic            *)
(*   SpecCap   a cohort of new students signs up in roster order           *)
(*   SpecConc  concurrent requests; a handler's checks and its list        *)
(*             mutation are separate steps (no lock in the code)           *)
(***************************************************************************)
EXTENDS Integers, Sequences, FiniteSets, TLC

VARIABLES
    activities,       \* the module-level dict `activities`
    FPDF_AVAILABLE,   \* the import-time flag
    request,          \* the last request served (Spec, SpecCap)
    response,         \* the response to it
    reqs              \* the in-flight requests of SpecConc

vars == <<activities, FPDF_AVAILABLE, request, response, reqs>>

----------------------------------------------------------------------------
(* Bounds and request inputs *)

NumNew == 1          \* new (unseeded) emails used by the clients of Spec
CohortSize == 9      \* students of the cohort of SpecCap
NumReqs == 2         \* concurrent requests of SpecConc

NewEmailPool ==
    << "new@mergington.edu", "new2@mergington.edu", "new3@mergington.edu" >>

CohortPool ==
    << "s01@mergington.edu", "s02@mergington.edu", "s03@mergington.edu",
       "s04@mergington.edu", "s05@mergington.edu", "s06@mergington.edu",
       "s07@mergington.edu", "s08@mergington.edu", "s09@mergington.edu",
       "s10@mergington.edu", "s11@mergington.edu", "s12@mergington.edu" >>

UnknownName == "Unknown Club"

NameInputs == {"Chess Club", "Math Club", UnknownName}

EmailInputs ==
    {"michael@mergington.edu"} \cup {NewEmailPool[i] : i \in 1..NumNew}

FormatInputs == {"csv", "pdf", "xml"}

CapNames == {"Math Club", "Chess Club"}

ConcNameInputs == {"Chess Club", UnknownName}

ConcEmailInputs == {"michael@mergington.edu", "new@mergington.edu"}

----------------------------------------------------------------------------
(* The seeded registry *)

SeedActivities ==
    [n \in {"Chess Club", "Programming Class", "Gym Class", "Soccer Team",
            "Basketball Team", "Art Club", "Drama Club", "Math Club",
            "Debate Team"} |->
      CASE n = "Chess Club" ->
             [description |-> "Learn strategies and compete in chess tournaments",
              schedule |-> "Fridays, 3:30 PM - 5:00 PM",
              max_participants |-> 12,
              participants |-> <<"michael@mergington.edu", "daniel@mergington.edu">>]
        [] n = "Programming Class" ->
             [description |-> "Learn programming fundamentals and build software projects",
              schedule |-> "Tuesdays and Thursdays, 3:30 PM - 4:30 PM",
              max_participants |-> 20,
              participants |-> <<"emma@mergington.edu", "sophia@mergington.edu">>]
        [] n = "Gym Class" ->
             [description |-> "Physical education and sports activities",
              schedule |-> "Mondays, Wednesdays, Fridays, 2:00 PM - 3:00 PM",
              max_participants |-> 30,
              participants |-> <<"john@mergington.edu", "olivia@mergington.edu">>]
        [] n = "Soccer Team" ->
             [description |-> "Join the school soccer team and compete in matches",
              schedule |-> "Tuesdays and Thursdays, 4:00 PM - 5:30 PM",
              max_participants |-> 22,
              participants |-> <<"liam@mergington.edu", "noah@mergington.edu">>]
        [] n = "Basketball Team" ->
             [description |-> "Practice and play basketball with the school team",
              schedule |-> "Wednesdays and Fridays, 3:30 PM - 5:00 PM",
              max_participants |-> 15,
              participants |-> <<"ava@mergington.edu", "mia@mergington.edu">>]
        [] n = "Art Club" ->
             [description |-> "Explore your creativity through painting and drawing",
              schedule |-> "Thursdays, 3:30 PM - 5:00 PM",
              max_participants |-> 15,
              participants |-> <<"amelia@mergington.edu", "harper@mergington.edu">>]
        [] n = "Drama Club" ->
             [description |-> "Act, direct, and produce plays and performances",
              schedule |-> "Mondays and Wednesdays, 4:00 PM - 5:30 PM",
              max_participants |-> 20,
              participants |-> <<"ella@mergington.edu", "scarlett@mergington.edu">>]
        [] n = "Math Club" ->
             [description |-> "Solve challenging problems and participate in math competitions",
              schedule |-> "Tuesdays, 3:30 PM - 4:30 PM",
              max_participants |-> 10,
              participants |-> <<"james@mergington.edu", "benjamin@mergington.edu">>]
        [] n = "Debate Team" ->
             [description |-> "Develop public speaking and argumentation skills",
              schedule |-> "Fridays, 4:00 PM - 5:30 PM",
              max_participants |-> 12,
              participants |-> <<"charlotte@mergington.edu", "henry@mergington.edu">>]]

\* iteration order of the dict: insertion order of its keys
ActivityOrder ==
    << "Chess Club", "Programming Class", "Gym Class", "Soccer Team",
       "Basketball Team", "Art Club", "Drama Club", "Math Club",
       "Debate Team" >>

----------------------------------------------------------------------------
(* Python list and string primitives *)

\* x in s
ListContains(s, x) == \E i \in 1..Len(s) : s[i] = x

\* a removal that works on a copy of the list and so leaves s as it was
ListRemoveFromCopy(s, x) == s

\* s.remove(x): drops the first occurrence of x (x is in s)
ListRemove(s, x) ==
    LET i == CHOOSE k \in 1..Len(s) :
                 s[k] = x /\ \A j \in 1..(k - 1) : s[j] # x
    IN  SubSeq(s, 1, i - 1) \o SubSeq(s, i + 1, Len(s))

\* number of occurrences of x in s
Occurrences(s, x) == Cardinality({i \in 1..Len(s) : s[i] = x})

\* ", ".join(s), as the sequence of its pieces
RECURSIVE Join(_, _)
Join(sep, s) ==
    IF Len(s) = 0 THEN << >>
    ELSE IF Len(s) = 1 THEN << s[1] >>
    ELSE << s[1], sep >> \o Join(sep, Tail(s))

\* sum(s) of a sequence of integers
RECURSIVE Sum(_)
Sum(s) == IF Len(s) = 0 THEN 0 ELSE s[1] + Sum(Tail(s))

HTTPException(status_code, detail) ==
    [status_code |-> status_code, body |-> [detail |-> detail]]

Ok(body) == [status_code |-> 200, body |-> body]

----------------------------------------------------------------------------
(* The handlers, as functions of the registry they run against: each yields *)
(* the registry it leaves and the response it returns.                      *)

root(acts) ==
    [activities |-> acts,
     response |-> [status_code |-> 307, body |-> [url |-> "/static/index.html"]]]

get_activities(acts) == [activities |-> acts, response |-> Ok(acts)]

\* signup without the membership test
signup_unchecked(acts, activity_name, email) ==
    IF activity_name \notin DOMAIN acts
    THEN [activities |-> acts,
          response |-> HTTPException(404, "Activity not found")]
    ELSE [activities |->
              [acts EXCEPT ![activity_name].participants = Append(@, email)],
          response |->
              Ok([message |-> <<"Signed up ", email, " for ", activity_name>>])]

\* signup that refuses a full activity
signup_capped(acts, activity_name, email) ==
    IF activity_name \notin DOMAIN acts
    THEN [activities |-> acts,
          response |-> HTTPException(404, "Activity not found")]
    ELSE IF ListContains(acts[activity_name].participants, email)
    THEN [activities |-> acts,
          response |-> HTTPException(400, "Student is already signed up")]
    ELSE IF Len(acts[activity_name].participants)
              >= acts[activity_name].max_participants
    THEN [activities |-> acts,
          response |-> HTTPException(400, "Activity is full")]
    ELSE [activities |->
              [acts EXCEPT ![activity_name].participants = Append(@, email)],
          response |->
              Ok([message |-> <<"Signed up ", email, " for ", activity_name>>])]

signup_for_activity(acts, activity_name, email) ==
    IF activity_name \notin DOMAIN acts
    THEN [activities |-> acts,
          response |-> HTTPException(404, "Activity not found")]
    ELSE IF ListContains(acts[activity_name].participants, email)
    THEN [activities |-> acts,
          response |-> HTTPException(400, "Student is already signed up")]
    ELSE [activities |->
              [acts EXCEPT ![activity_name].participants = Append(@, email)],
          response |->
              Ok([message |-> <<"Signed up ", email, " for ", activity_name>>])]

\* unregister that filters the email out and reports success even when the
\* email was not in the list
unregister_unchecked(acts, activity_name, email) ==
    IF activity_name \notin DOMAIN acts
    THEN [activities |-> acts,
          response |-> HTTPException(404, "Activity not found")]
    ELSE [activities |->
              [acts EXCEPT ![activity_name].participants =
                  SelectSeq(@, LAMBDA x : x # email)],
          response |->
              Ok([message |-> <<"Unregistered ", email, " from ", activity_name>>])]

\* unregister that reads the list through a default and so answers an
\* unknown activity like an activity without the email
unregister_defaulting(acts, activity_name, email) ==
    LET participants == IF activity_name \in DOMAIN acts
                        THEN acts[activity_name].participants ELSE << >> IN
    IF ~ListContains(participants, email)
    THEN [activities |-> acts,
          response |->
              HTTPException(400, "Student is not signed up for this activity")]
    ELSE [activities |->
              [acts EXCEPT ![activity_name].participants = ListRemove(@, email)],
          response |->
              Ok([message |-> <<"Unregistered ", email, " from ", activity_name>>])]

\* unregister that takes the student out of every activity
unregister_everywhere(acts, activity_name, email) ==
    IF activity_name \notin DOMAIN acts
    THEN [activities |-> acts,
          response |-> HTTPException(404, "Activity not found")]
    ELSE IF ~ListContains(acts[activity_name].participants, email)
    THEN [activities |-> acts,
          response |->
              HTTPException(400, "Student is not signed up for this activity")]
    ELSE [activities |->
              [n \in DOMAIN acts |->
                  [acts[n] EXCEPT !.participants =
                      SelectSeq(@, LAMBDA x : x # email)]],
          response |->
              Ok([message |-> <<"Unregistered ", email, " from ", activity_name>>])]

unregister_from_activity(acts, activity_name, email) ==
    IF activity_name \notin DOMAIN acts
    THEN [activities |-> acts,
          response |-> HTTPException(404, "Activity not found")]
    ELSE IF ~ListContains(acts[activity_name].participants, email)
    THEN [activities |-> acts,
          response |->
              HTTPException(400, "Student is not signed up for this activity")]
    ELSE [activities |->
              [acts EXCEPT ![activity_name].participants = ListRemove(@, email)],
          response |->
              Ok([message |-> <<"Unregistered ", email, " from ", activity_name>>])]

\* the per-activity entries, in the dict's iteration order
ReportEntries(acts) ==
    [i \in 1..Len(ActivityOrder) |->
        LET name == ActivityOrder[i] IN
        [activity |-> name,
         participants_count |-> Len(acts[name].participants),
         max_participants |-> acts[name].max_participants,
         participants |-> acts[name].participants]]

total_activities(acts) == Cardinality(DOMAIN acts)

\* the total taken over the distinct emails
total_participants_distinct(acts) ==
    Cardinality(UNION {{acts[n].participants[i] :
                           i \in 1..Len(acts[n].participants)} :
                          n \in DOMAIN acts})

total_participants(acts) ==
    Sum([i \in 1..Len(ActivityOrder) |-> Len(acts[ActivityOrder[i]].participants)])

\* the set built from (activity, email) pairs: distinct per activity only
unique_users_per_activity(acts) ==
    UNION {{<<n, acts[n].participants[i]>> :
               i \in 1..Len(acts[n].participants)} : n \in DOMAIN acts}

unique_users(acts) ==
    UNION {{acts[n].participants[i] : i \in 1..Len(acts[n].participants)} :
              n \in DOMAIN acts}

get_reports(acts) ==
    [summary |-> [total_activities |-> total_activities(acts),
                  total_participants |-> total_participants(acts),
                  unique_users |-> Cardinality(unique_users(acts))],
     activities |-> ReportEntries(acts)]

CsvRows(report) ==
    << <<"Activity", "Participants Count", "Max Participants", "Participants">> >>
    \o [i \in 1..Len(report) |->
          << report[i].activity, report[i].participants_count,
             report[i].max_participants, Join(", ", report[i].participants) >>]

RECURSIVE PdfLines(_)
PdfLines(report) ==
    IF Len(report) = 0 THEN << >>
    ELSE << <<"Actividad: ", report[1].activity>>,
            <<"Participantes: ", report[1].participants_count, " / ",
              report[1].max_participants>>,
            <<"Lista: ">> \o Join(", ", report[1].participants) >>
         \o PdfLines(Tail(report))

\* (the accented letters of the Spanish texts are written unaccented)
export_reports(acts, format, fpdf) ==
    LET report == get_reports(acts).activities IN
    [activities |-> acts,
     response |->
        IF format = "csv"
        THEN Ok([media_type |-> "text/csv", filename |-> "report.csv",
                 content |-> CsvRows(report)])
        ELSE IF format = "pdf"
        THEN IF ~fpdf
             THEN HTTPException(500,
                     "FPDF no esta instalado. Instala con 'pip install fpdf'.")
             ELSE Ok([media_type |-> "application/pdf",
                      filename |-> "report.pdf",
                      content |-> << <<"Reporte de Participacion">> >>
                                  \o PdfLines(report)])
        ELSE HTTPException(400, "Formato no soportado. Usa 'csv' o 'pdf'.")]

----------------------------------------------------------------------------
(* Spec: requests served one at a time *)

NoRequest == [op |-> "none", activity_name |-> "", email |-> "", format |-> ""]

NoResponse == [status_code |-> 0, body |-> [detail |-> ""]]

Req(op, activity_name, email, format) ==
    [op |-> op, activity_name |-> activity_name, email |-> email,
     format |-> format]

Init ==
    /\ activities = SeedActivities
    /\ FPDF_AVAILABLE \in BOOLEAN
    /\ request = NoRequest
    /\ response = NoResponse
    /\ reqs = << >>

Serve(req, result) ==
    /\ activities' = result.activities
    /\ response' = result.response
    /\ request' = req
    /\ UNCHANGED <<FPDF_AVAILABLE, reqs>>

Root == Serve(Req("root", "", "", ""), root(activities))

GetActivities == Serve(Req("list", "", "", ""), get_activities(activities))

Signup ==
    \E n \in NameInputs, e \in EmailInputs :
        Serve(Req("signup", n, e, ""), signup_for_activity(activities, n, e))

Unregister ==
    \E n \in NameInputs, e \in EmailInputs :
        Serve(Req("unregister", n, e, ""),
              unregister_from_activity(activities, n, e))

GetReports ==
    Serve(Req("report", "", "", ""),
          [activities |-> activities, response |-> Ok(get_reports(activities))])

ExportReports ==
    \E f \in FormatInputs :
        Serve(Req("export", "", "", f),
              export_reports(activities, f, FPDF_AVAILABLE))

Next ==
    \/ Root
    \/ GetActivities
    \/ Signup
    \/ Unregister
    \/ GetReports
    \/ ExportReports

Spec == Init /\ [][Next]_vars

----------------------------------------------------------------------------
(* SpecCap: the same handlers, driven by a cohort of CohortSize new        *)
(* students who sign up for an activity in roster order, while the seeded  *)
(* members may leave.                                                      *)

Cohort == [i \in 1..CohortSize |-> CohortPool[i]]

SeededEmails(n) ==
    {SeedActivities[n].participants[i] :
        i \in 1..Len(SeedActivities[n].participants)}

CohortSignup ==
    \E n \in CapNames, i \in 1..CohortSize :
        /\ \A j \in 1..(i - 1) :
              ListContains(activities[n].participants, Cohort[j])
        /\ Serve(Req("signup", n, Cohort[i], ""),
                 signup_for_activity(activities, n, Cohort[i]))

SeededUnregister ==
    \E n \in CapNames :
        \E e \in SeededEmails(n) :
            Serve(Req("unregister", n, e, ""),
                  unregister_from_activity(activities, n, e))

NextCap ==
    \/ CohortSignup
    \/ SeededUnregister

SpecCap == Init /\ [][NextCap]_vars

----------------------------------------------------------------------------
(* SpecConc: NumReqs requests served concurrently by the worker threads.   *)
(* Nothing in the handlers locks the registry, so the lookup of the        *)
(* activity, the membership test and the list mutation of one request are  *)
(* separate steps, and steps of other requests may run between them.       *)

ReqIds == 1..NumReqs

IdleReq ==
    [op |-> "none", activity_name |-> "", email |-> "", pc |-> "idle",
     status_code |-> 0]

InitConc ==
    /\ activities = SeedActivities
    /\ FPDF_AVAILABLE \in BOOLEAN
    /\ request = NoRequest
    /\ response = NoResponse
    /\ reqs = [i \in ReqIds |-> IdleReq]

Step(i, pc, status_code) ==
    reqs' = [reqs EXCEPT ![i].pc = pc, ![i].status_code = status_code]

\* a request arrives and is handed to a worker
Arrive(i) ==
    /\ reqs[i].pc = "idle"
    /\ \E op \in {"signup", "unregister"}, n \in ConcNameInputs,
          e \in ConcEmailInputs :
          reqs' = [reqs EXCEPT ![i] =
                      [op |-> op, activity_name |-> n, email |-> e,
                       pc |-> "lookup", status_code |-> 0]]
    /\ UNCHANGED <<activities, FPDF_AVAILABLE, request, response>>

\* if activity_name not in activities: raise 404
SignupLookup(i) ==
    /\ reqs[i].op = "signup" /\ reqs[i].pc = "lookup"
    /\ IF reqs[i].activity_name \notin DOMAIN activities
       THEN Step(i, "done", 404)
       ELSE Step(i, "check", 0)
    /\ UNCHANGED <<activities, FPDF_AVAILABLE, request, response>>

\* the membership test left out: the request goes on to append
SignupCheckSkipped(i) ==
    /\ reqs[i].op = "signup" /\ reqs[i].pc = "check"
    /\ Step(i, "mutate", 0)
    /\ UNCHANGED <<activities, FPDF_AVAILABLE, request, response>>

\* if email in activity["participants"]: raise 400
SignupCheck(i) ==
    /\ reqs[i].op = "signup" /\ reqs[i].pc = "check"
    /\ IF ListContains(activities[reqs[i].activity_name].participants,
                       reqs[i].email)
       THEN Step(i, "done", 400)
       ELSE Step(i, "mutate", 0)
    /\ UNCHANGED <<activities, FPDF_AVAILABLE, request, response>>

\* activity["participants"].append(email)
SignupAppend(i) ==
    /\ reqs[i].op = "signup" /\ reqs[i].pc = "mutate"
    /\ activities' = [activities EXCEPT
          ![reqs[i].activity_name].participants = Append(@, reqs[i].email)]
    /\ Step(i, "done", 200)
    /\ UNCHANGED <<FPDF_AVAILABLE, request, response>>

UnregisterLookup(i) ==
    /\ reqs[i].op = "unregister" /\ reqs[i].pc = "lookup"
    /\ IF reqs[i].activity_name \notin DOMAIN activities
       THEN Step(i, "done", 404)
       ELSE Step(i, "check", 0)
    /\ UNCHANGED <<activities, FPDF_AVAILABLE, request, response>>

\* if email not in activity["participants"]: raise 400
UnregisterCheck(i) ==
    /\ reqs[i].op = "unregister" /\ reqs[i].pc = "check"
    /\ IF ~ListContains(activities[reqs[i].activity_name].participants,
                        reqs[i].email)
       THEN Step(i, "done", 400)
       ELSE Step(i, "mutate", 0)
    /\ UNCHANGED <<activities, FPDF_AVAILABLE, request, response>>

\* activity["participants"].remove(email); list.remove raises ValueError
\* when the email is no longer in the list, which the framework answers
\* with 500
UnregisterRemove(i) ==
    /\ reqs[i].op = "unregister" /\ reqs[i].pc = "mutate"
    /\ IF ListContains(activities[reqs[i].activity_name].participants,
                       reqs[i].email)
       THEN /\ activities' = [activities EXCEPT
                  ![reqs[i].activity_name].participants =
                      ListRemove(@, reqs[i].email)]
            /\ Step(i, "done", 200)
       ELSE /\ UNCHANGED activities
            /\ Step(i, "done", 500)
    /\ UNCHANGED <<FPDF_AVAILABLE, request, response>>

NextConc ==
    \E i \in ReqIds :
        \/ Arrive(i)
        \/ SignupLookup(i)
        \/ SignupCheck(i)
        \/ SignupAppend(i)
        \/ UnregisterLookup(i)
        \/ UnregisterCheck(i)
        \/ UnregisterRemove(i)

SpecConc == InitConc /\ [][NextConc]_vars

----------------------------------------------------------------------------
(* Properties *)

Participants(n) == activities[n].participants

NoDuplicates(acts) ==
    \A n \in DOMAIN acts :
        \A i, j \in 1..Len(acts[n].participants) :
            acts[n].participants[i] = acts[n].participants[j] => i = j

SharedEmail(acts) ==
    \E a, b \in DOMAIN acts :
        /\ a # b
        /\ \E i \in 1..Len(acts[a].participants) :
              ListContains(acts[b].participants, acts[a].participants[i])

RoundTrip(acts, n, e) ==
    unregister_from_activity(signup_for_activity(acts, n, e).activities, n, e)
        .activities[n].participants
    = acts[n].participants

\* C1, as stated: for every activity of the registry and every email,
\* signup followed by unregister leaves the activity's participants list as
\* it was before the signup.
C1_RoundTripAnyEmail ==
    \A n \in DOMAIN activities : \A e \in EmailInputs :
        RoundTrip(activities, n, e)

\* C1, amended: for every activity of the registry and every email that is
\* not yet in its participants list, signup succeeds, the following
\* unregister succeeds, and the participants list (elements and order) and
\* the whole registry are as before the signup.
C1_RoundTrip ==
    \A n \in DOMAIN activities : \A e \in EmailInputs :
        ~ListContains(Participants(n), e) =>
            LET s == signup_for_activity(activities, n, e)
                u == unregister_from_activity(s.activities, n, e)
            IN  /\ s.response.status_code = 200
                /\ u.response.status_code = 200
                /\ RoundTrip(activities, n, e)
                /\ u.activities = activities

\* a new email was signed up for the Chess Club and unregistered again, and
\* the list is the one it was before
C1_Witness ==
    /\ request = Req("unregister", "Chess Club", NewEmailPool[1], "")
    /\ response.status_code = 200
    /\ Participants("Chess Club") = SeedActivities["Chess Club"].participants

\* C2: a signup for an existing activity whose participants already contain
\* the email is answered with 400 "Student is already signed up" and leaves
\* the registry as it was.
C2_AlreadyRegistered ==
    [][(/\ request'.op = "signup"
        /\ request'.activity_name \in DOMAIN activities
        /\ ListContains(Participants(request'.activity_name), request'.email))
       => /\ response' = HTTPException(400, "Student is already signed up")
          /\ activities' = activities]_vars

\* a new email, signed up before, is refused on its second signup
C2_Witness ==
    /\ request.op = "signup"
    /\ request.email = NewEmailPool[1]
    /\ request.activity_name \in DOMAIN activities
    /\ response = HTTPException(400, "Student is already signed up")
    /\ Occurrences(Participants(request.activity_name), request.email) = 1

\* C3: an unregister for an existing activity whose participants do not
\* contain the email is answered with 400 "Student is not signed up for
\* this activity" and leaves the registry as it was.
C3_NotRegistered ==
    [][(/\ request'.op = "unregister"
        /\ request'.activity_name \in DOMAIN activities
        /\ ~ListContains(Participants(request'.activity_name), request'.email))
       => /\ response' =
                HTTPException(400, "Student is not signed up for this activity")
          /\ activities' = activities]_vars

\* a seeded member who has left is refused on a second unregister
C3_Witness ==
    /\ request = Req("unregister", "Chess Club", "michael@mergington.edu", "")
    /\ response =
          HTTPException(400, "Student is not signed up for this activity")
    /\ ~ListContains(Participants("Chess Club"), "michael@mergington.edu")

\* C4: a signup or unregister with a name that is not a key of the registry
\* is answered with 404 "Activity not found" whatever the email, also when
\* the email is a participant of other activities, and leaves the registry
\* as it was.
C4_NotFound ==
    [][(/\ request'.op \in {"signup", "unregister"}
        /\ request'.activity_name \notin DOMAIN activities)
       => /\ response' = HTTPException(404, "Activity not found")
          /\ activities' = activities]_vars

\* an unregister for an unknown activity of an email that takes part in two
\* activities
C4_Witness ==
    /\ request.op = "unregister"
    /\ request.activity_name = UnknownName
    /\ response = HTTPException(404, "Activity not found")
    /\ ListContains(Participants("Chess Club"), request.email)
    /\ ListContains(Participants("Math Club"), request.email)

\* C5: the report's unique_users is at most its total_participants, and the
\* two are equal exactly when no email is in the participants list of more
\* than one activity.
C5_UniqueUsers ==
    LET summary == get_reports(activities).summary IN
    /\ summary.unique_users <= summary.total_participants
    /\ (summary.unique_users = summary.total_participants)
          <=> ~SharedEmail(activities)

\* a report served while an email is in two activities
C5_Witness ==
    /\ request.op = "report"
    /\ response.status_code = 200
    /\ SharedEmail(activities)
    /\ response.body.summary.unique_users
          < response.body.summary.total_participants

\* C6: the report's total_participants is the sum of participants_count over
\* its entries, each participants_count is the length of that activity's
\* participants list, and total_activities is the number of activities.
C6_ReportTotals ==
    LET r == get_reports(activities) IN
    /\ r.summary.total_participants =
          Sum([i \in 1..Len(r.activities) |-> r.activities[i].participants_count])
    /\ \A i \in 1..Len(r.activities) :
          /\ r.activities[i].activity \in DOMAIN activities
          /\ r.activities[i].participants_count =
                Len(Participants(r.activities[i].activity))
    /\ {r.activities[i].activity : i \in 1..Len(r.activities)}
          = DOMAIN activities
    /\ r.summary.total_activities = Len(r.activities)
    /\ r.summary.total_activities = Cardinality(DOMAIN activities)

\* a report served after signups, with an email counted twice in the total
C6_Witness ==
    /\ request.op = "report"
    /\ response.status_code = 200
    /\ response.body.summary.total_participants
          > total_participants(SeedActivities)
    /\ response.body.summary.unique_users
          = Cardinality(unique_users(SeedActivities))

\* C7: with requests served one at a time, no participants list ever holds
\* the same email twice.
C7_NoDuplicates == NoDuplicates(activities)

\* a seeded member left the Chess Club and signed up again
C7_Witness ==
    /\ request = Req("signup", "Chess Club", "michael@mergington.edu", "")
    /\ response.status_code = 200
    /\ Participants("Chess Club")
          = <<"daniel@mergington.edu", "michael@mergington.edu">>

\* C8: a signup for an existing activity of an email not yet in it succeeds
\* and appends the email at the end of the list, whatever the number of
\* participants and max_participants are.
C8_NoCapacityCheck ==
    [][(/\ request'.op = "signup"
        /\ request'.activity_name \in DOMAIN activities
        /\ ~ListContains(Participants(request'.activity_name), request'.email))
       => /\ response'.status_code = 200
          /\ activities' =
                [activities EXCEPT ![request'.activity_name].participants =
                    Append(@, request'.email)]]_vars

\* the Math Club holds more participants than its max_participants, the
\* last of them just signed up
C8_Witness ==
    /\ request.op = "signup"
    /\ request.activity_name = "Math Club"
    /\ response.status_code = 200
    /\ Len(Participants("Math Club"))
          > activities["Math Club"].max_participants
    /\ Participants("Math Club")[Len(Participants("Math Club"))]
          = request.email

\* C9: no operation changes the set of activity names or an activity's
\* description, schedule or max_participants, and only a signup or an
\* unregister changes a participants list, namely that of the activity it
\* names.
C9_Frame ==
    [][/\ DOMAIN activities' = DOMAIN activities
       /\ \A n \in DOMAIN activities :
             /\ activities'[n].description = activities[n].description
             /\ activities'[n].schedule = activities[n].schedule
             /\ activities'[n].max_participants = activities[n].max_participants
             /\ activities'[n].participants # activities[n].participants
                   => /\ request'.op \in {"signup", "unregister"}
                      /\ request'.activity_name = n]_vars

\* an email left one activity and is still in another
C9_Witness ==
    /\ request = Req("unregister", "Math Club", "michael@mergington.edu", "")
    /\ response.status_code = 200
    /\ ListContains(Participants("Chess Club"), "michael@mergington.edu")
    /\ ~ListContains(Participants("Math Club"), "michael@mergington.edu")

Finished(op, n, e, status_code) ==
    {i \in ReqIds :
        /\ reqs[i].op = op /\ reqs[i].activity_name = n /\ reqs[i].email = e
        /\ reqs[i].pc = "done" /\ reqs[i].status_code = status_code}

====
